---- MODULE Spec2Model ----
(***************************************************************************)
(* Model of the Hacker News -> Slack bot (package bots): the three HTTP    *)
(* entry points /poll (handler), /edit (editHandler) and /cleanup          *)
(* (cleanUpHandler), the three delayed functions they dispatch             *)
(* (sendMessageFunc, editMessageFunc, deleteMessageFunc), the datastore    *)
(* of Story entities and the chat platform.                                *)
(*                                                                         *)
(* Time is counted in hours.  Message timestamps are the naturals the chat *)
(* platform hands out; NoTimestamp stands for Go's empty string.           *)
(***************************************************************************)
EXTENDS Integers, Sequences, FiniteSets, TLC

VARIABLES
    store,      \* datastore: the saved Story entities, by item id
    now,        \* the last reading of the wall clock (time.Now), in hours
    started,    \* the number of handler invocations so far
    cycles,     \* the handler invocations that have not returned, by number
    tasks,      \* the goroutines and queued delayed-function invocations that
                \* have not finished, by <<invocation, position>>
    chatLog,    \* the requests the chat platform has received
    call        \* the last call of a pure function: [fn, arg, ret]

vars == <<store, now, started, cycles, tasks, chatLog, call>>

-----------------------------------------------------------------------------
(* Bounds of the model *)

NumIds == 2
MaxCycles == 2

Ids == 1..NumIds

\* the readings the clock can give: around the start and around the
\* retention window
Times == {0, 2, 24, 25}

-----------------------------------------------------------------------------
(* Program constants *)

\* main.go: const BatchSize = 30, scaled down to keep the batches enumerable
BatchSize == 2
NumCommentsThreshold == 5
ScoreThreshold == 50
\* cleanUpHandler: now.Add(-24 * time.Hour)
RetentionHours == 24
\* the zero value of Story.Timestamp
NoTimestamp == 0

NoSuchEntity == "ErrNoSuchEntity"

-----------------------------------------------------------------------------
(* Story *)

\* the fields of a Story that FillMissingFields decodes and ShouldIgnore reads
Items == [Type : {"story", "job"},
          Score : {49, 50, 100, 101, 150},
          Descendants : {4, 5, 100, 101, 150},
          URL : {"", "http://a"}]

\* Story{ID: itemID}: every other field has its zero value
ZeroItem == [Type |-> "", Score |-> 0, Descendants |-> 0, URL |-> ""]

\* the item details the upstream API serves while the state machine runs
FetchItems ==
    { [Type |-> "story", Score |-> 50, Descendants |-> 5, URL |-> "http://a"],
      [Type |-> "story", Score |-> 49, Descendants |-> 5, URL |-> "http://a"],
      [Type |-> "story", Score |-> 50, Descendants |-> 5, URL |-> ""] }

\* ShouldIgnore with the thresholds excluded
ShouldIgnore_Inclusive(s) ==
    \/ s.Type # "story"
    \/ s.Score <= ScoreThreshold
    \/ s.Descendants <= NumCommentsThreshold
    \/ s.URL = ""

\* ShouldIgnore without its last test
ShouldIgnore_NoURL(s) ==
    \/ s.Type # "story"
    \/ s.Score < ScoreThreshold
    \/ s.Descendants < NumCommentsThreshold

ShouldIgnore(s) ==
    \/ s.Type # "story"
    \/ s.Score < ScoreThreshold
    \/ s.Descendants < NumCommentsThreshold
    \/ s.URL = ""

\* Hot, the sign for a hot story
Hot == "(fire)"

\* the suffix given from 100 on
HotSuffix_Inclusive(n) == IF n >= 100 THEN << " ", Hot >> ELSE << >>

\* scoreSuffix and commentSuffix: " " + Hot above 100
HotSuffix(n) == IF n > 100 THEN << " ", Hot >> ELSE << >>

\* NewsURL: the parts of the string
NewsURL(id) == << "https://news.ycombinator.com/item?id=", ToString(id) >>

\* what client.Get(s.URL) can find: no answer at all (ok = FALSE), or a page
\* with or without an Open Graph image and description
Pages ==
    [ok : BOOLEAN, Image : {"", "http://a/og.png"}, Description : {"", "about a"}]

\* ToSendMessageAttachments of the Story with the given id and fields, when
\* its URL serves the page: a string is the sequence of its parts, %d is
\* ToString
ToSendMessageAttachments(id, s, page) ==
    IF ~page.ok
    THEN \* resp is nil: defer resp.Body.Close() panics
         [panic |-> TRUE, attachments |-> << >>]
    ELSE [panic |-> FALSE,
          attachments |-> <<
             [TitleLink |-> s.URL,
              Fields |-> <<
                 [Title |-> "Score",
                  Value |-> << ToString(s.Score), "+" >> \o HotSuffix(s.Score),
                  Short |-> TRUE],
                 [Title |-> "Comments",
                  Value |-> << "<" >> \o NewsURL(id)
                               \o << "|", ToString(s.Descendants), "+" >>
                               \o HotSuffix(s.Descendants) \o << ">" >>,
                  Short |-> TRUE] >>,
              ThumbURL |-> page.Image,
              Text |-> page.Description] >>]

\* GetReplyMarkup: the one row of two buttons
GetReplyMarkup(id, s) ==
    << << [Text |-> << "Score: ", ToString(s.Score), "+" >>
                       \o HotSuffix(s.Score),
           URL |-> << s.URL >>],
          [Text |-> << "Comments: ", ToString(s.Descendants), "+" >>
                       \o HotSuffix(s.Descendants),
           URL |-> NewsURL(id)] >> >>

\* time.Now() gives h: the clock never runs backwards
TimeNow(h) ==
    /\ h \in Times
    /\ h >= now
    /\ now' = h

\* Story.Save writing the zero value in place of s.Timestamp
Save_NoTimestamp(id, timestamp, h) ==
    [ID |-> id, Timestamp |-> NoTimestamp, LastSave |-> h]

\* Story.Save: the three properties written for a Story; LastSave is time.Now()
Save(id, timestamp, h) ==
    [ID |-> id, Timestamp |-> timestamp, LastSave |-> h]

\* datastore.Put and datastore.Delete of the entity of an id
DatastorePut(id, entity) ==
    [k \in DOMAIN store \cup {id} |-> IF k = id THEN entity ELSE store[k]]

DatastoreDelete(id) == [k \in DOMAIN store \ {id} |-> store[k]]

\* InDatastore that also counts a send of the id that has posted and not yet
\* written: a per-id guard on the work in flight
InDatastore_InFlight(id) ==
    \/ id \in DOMAIN store
    \/ \E u \in DOMAIN tasks :
          tasks[u].id = id /\ tasks[u].kind = "send" /\ tasks[u].pc = "saving"

\* InDatastore: a keys-only query for the key of the id
InDatastore(id) == id \in DOMAIN store

\* var story Story: every field has its zero value
ZeroStory ==
    [ID |-> 0, Timestamp |-> NoTimestamp, LastSave |-> 0,
     Type |-> "", Score |-> 0, Descendants |-> 0, URL |-> ""]

\* Story.Load: datastore.LoadStruct sets the fields that have a property
Load(s, ps) ==
    [s EXCEPT !.ID = ps.ID, !.Timestamp = ps.Timestamp,
              !.LastSave = ps.LastSave]

\* datastore.Get(ctx, GetKey(ctx, id), &story) on the datastore ds
Get(ds, id) ==
    IF id \in DOMAIN ds
    THEN [story |-> Load(ZeroStory, ds[id]), err |-> "nil"]
    ELSE [story |-> ZeroStory, err |-> NoSuchEntity]

NewFromDatastore(id) == Get(store, id)

-----------------------------------------------------------------------------
(* DeleteMessageResponse *)

\* a description is the sequence of its words
MessageToDeleteNotFound == << "message", "to", "delete", "not", "found" >>
MessageCantBeDeleted == << "message", "can't", "be", "deleted" >>

\* strings.Contains(s, substr)
Contains(s, substr) ==
    \E i \in 1..(Len(s) - Len(substr) + 1) :
        \A k \in 1..Len(substr) : s[i + k - 1] = substr[k]

Descriptions ==
    { pre \o core \o post :
        pre \in { << >>, << "Bad", "Request:" >> },
        core \in { << >>,
                   MessageToDeleteNotFound,
                   MessageCantBeDeleted,
                   << "message", "to", "delete", "not" >>,
                   << "message", "can't", "be", "edited" >>,
                   << "found", "not", "delete", "to", "message" >>,
                   << "chat", "not", "found" >> },
        post \in { << >>, << "anymore" >> } }

DeleteMessageResponses ==
    [OK : BOOLEAN, ErrorCode : {0, 400, 403}, Description : Descriptions]

\* ShouldIgnoreError without the test of the error code
ShouldIgnoreError_AnyCode(r) ==
    \/ Contains(r.Description, MessageToDeleteNotFound)
    \/ Contains(r.Description, MessageCantBeDeleted)

ShouldIgnoreError(r) ==
    /\ r.ErrorCode = 400
    /\ \/ Contains(r.Description, MessageToDeleteNotFound)
       \/ Contains(r.Description, MessageCantBeDeleted)

-----------------------------------------------------------------------------
(* The handlers *)

\* go func(...) { defer wg.Done(); xMessageFunc.Call(ctx, ...) }: the goroutine
\* a handler spawns for one id, before its Call has returned
NewTask(kind, id, timestamp) ==
    [kind |-> kind, id |-> id, timestamp |-> timestamp,
     pc |-> "spawned", item |-> ZeroItem]

\* what the candidate list endpoint can answer: at most BatchSize distinct ids
\* (limitToFirst=BatchSize); the handlers treat every position alike, so the
\* lists are taken in one order
TopStories ==
    UNION { { s \in [1..n -> Ids] : \A i, j \in 1..n : i < j => s[i] < s[j] }
            : n \in 0..BatchSize }

\* the per-key errors datastore.GetMulti can report for the keys of ids
MultiErrors(ids) ==
    { e \in [1..Len(ids) -> {"nil", NoSuchEntity, "error"}] :
        \A i \in 1..Len(ids) :
            e[i] \in (IF ids[i] \notin DOMAIN store
                      THEN {NoSuchEntity, "error"} ELSE {"nil", "error"}) }

\* the loop over multiErr sending whatever the lookup says
RangeMultiErr_AlwaysSend(ids, errs, withSend) ==
    [i \in { i \in 1..Len(ids) : errs[i] # "error" } |->
        NewTask("send", ids[i], NoTimestamp)]

\* the loop over multiErr passing the timestamp of a fresh Story instead of
\* savedStories[i].Timestamp
RangeMultiErr_NoTimestamp(ids, errs, withSend) ==
    LET edits == { i \in 1..Len(ids) : errs[i] = "nil" }
        sends == { i \in 1..Len(ids) : errs[i] = NoSuchEntity /\ withSend }
    IN  [i \in edits \cup sends |->
            IF i \in edits
            THEN NewTask("edit", ids[i], NoTimestamp)
            ELSE NewTask("send", ids[i], NoTimestamp)]

\* the loop over multiErr returning at the first error that is not
\* ErrNoSuchEntity
RangeMultiErr_Abort(ids, errs, withSend) ==
    LET before == { i \in 1..Len(ids) : \A j \in 1..i : errs[j] # "error" }
        edits == { i \in before : errs[i] = "nil" }
        sends == { i \in before : errs[i] = NoSuchEntity /\ withSend }
    IN  [i \in edits \cup sends |->
            IF i \in edits
            THEN NewTask("edit", ids[i], store[ids[i]].Timestamp)
            ELSE NewTask("send", ids[i], NoTimestamp)]

\* the loop over multiErr of handler (withSend) and of editHandler: the
\* goroutine spawned for position i, if any
RangeMultiErr(ids, errs, withSend) ==
    LET edits == { i \in 1..Len(ids) : errs[i] = "nil" }
        sends == { i \in 1..Len(ids) : errs[i] = NoSuchEntity /\ withSend }
    IN  [i \in edits \cup sends |->
            IF i \in edits
            THEN NewTask("edit", ids[i], store[ids[i]].Timestamp)
            ELSE NewTask("send", ids[i], NoTimestamp)]

\* the err == nil branch: an edit for every key
RangeKeys(ids) ==
    [i \in 1..Len(ids) |-> NewTask("edit", ids[i], store[ids[i]].Timestamp)]

\* the goroutines of invocation c join the others
Spawn(c, new) ==
    [k \in DOMAIN tasks \cup { <<c, i>> : i \in DOMAIN new } |->
        IF k \in DOMAIN tasks THEN tasks[k] ELSE new[k[2]]]

\* invocation c has its candidates (ids) and the answer of the datastore
\* (lookup, and the error errs of each key: all nil when err == nil)
Start(c, kind, ids, lookup, errs) ==
    /\ started' = c
    /\ cycles' = [k \in DOMAIN cycles \cup {c} |->
                    IF k = c
                    THEN [kind |-> kind, ids |-> ids, lookup |-> lookup,
                          errs |-> errs]
                    ELSE cycles[k]]

\* handler and editHandler differ only in the ErrNoSuchEntity case
pollHandler(kind, withSend) ==
    /\ started < MaxCycles
    /\ LET c == started + 1 IN
       \/ \* getTopStories fails: logged, return
          /\ Start(c, kind, << >>, "no_candidates", << >>)
          /\ tasks' = tasks
       \/ \E ids \in TopStories :
             \/ \* GetMulti fails as a whole (not a MultiError): always when
                \* len(keys) # len(savedStories) = BatchSize
                /\ Start(c, kind, ids,
                         IF Len(ids) = BatchSize THEN "failed" ELSE "mismatch",
                         << >>)
                /\ tasks' = tasks
             \/ /\ Len(ids) = BatchSize
                /\ \E errs \in MultiErrors(ids) :
                      /\ Start(c, kind, ids, "done", errs)
                      /\ tasks' = Spawn(c,
                            IF \A i \in 1..Len(ids) : errs[i] = "nil"
                            THEN RangeKeys(ids)
                            ELSE RangeMultiErr(ids, errs, withSend))
    /\ UNCHANGED <<store, now, chatLog, call>>

handler == pollHandler("poll", TRUE)

editHandler == pollHandler("edit", FALSE)

\* Filter("LastSave <", oneDayAgo)
Stale_Strict(id, h) ==
    /\ id \in DOMAIN store
    /\ store[id].LastSave < h - RetentionHours

\* Filter("LastSave <=", oneDayAgo), with oneDayAgo = h - 24 hours
Stale(id, h) ==
    /\ id \in DOMAIN store
    /\ store[id].LastSave <= h - RetentionHours

\* the query result, in index order (LastSave, then key)
RECURSIVE AllStories(_)
AllStories(S) ==
    IF S = {} THEN << >>
    ELSE LET first == CHOOSE x \in S : \A y \in S :
                         \/ store[x].LastSave < store[y].LastSave
                         \/ store[x].LastSave = store[y].LastSave /\ x <= y
         IN  << first >> \o AllStories(S \ {first})

cleanUpHandler ==
    /\ started < MaxCycles
    /\ \E h \in Times :
          /\ TimeNow(h)
          /\ LET c == started + 1 IN
             \/ \* the query fails: logged, return
                /\ Start(c, "cleanup", << >>, "failed", << >>)
                /\ tasks' = tasks
             \/ LET allStories == AllStories({ id \in Ids : Stale(id, h) }) IN
                /\ Start(c, "cleanup", allStories, "done", << >>)
                /\ tasks' = Spawn(c, [i \in 1..Len(allStories) |->
                               NewTask("delete", allStories[i], NoTimestamp)])
    /\ UNCHANGED <<store, chatLog, call>>

\* the end of a task takes the other tasks of its invocation with it, as if
\* the batch were aborted
Remove_Batch(t) == [k \in { u \in DOMAIN tasks : u[1] # t[1] } |-> tasks[k]]

\* a task leaves the queue (or its goroutine ends without having queued it)
Remove(t) == [k \in DOMAIN tasks \ {t} |-> tasks[k]]

\* xMessageFunc.Call(ctx, ...): the delay package adds the invocation to the
\* task queue and returns; the error of a failed add is dropped
Call(t) ==
    /\ tasks[t].pc = "spawned"
    /\ \/ tasks' = [tasks EXCEPT ![t].pc = "queued"]
       \/ tasks' = Remove(t)
    /\ UNCHANGED <<store, now, started, cycles, chatLog, call>>

\* a handler without its wg.Wait()
Return_NoWait(c) ==
    /\ cycles' = [k \in DOMAIN cycles \ {c} |-> cycles[k]]
    /\ UNCHANGED <<store, now, started, tasks, chatLog, call>>

\* defer wg.Wait(): the handler returns once every goroutine has called Done
Return(c) ==
    /\ \A t \in DOMAIN tasks : t[1] = c => tasks[t].pc # "spawned"
    /\ cycles' = [k \in DOMAIN cycles \ {c} |-> cycles[k]]
    /\ UNCHANGED <<store, now, started, tasks, chatLog, call>>

-----------------------------------------------------------------------------
(* The chat platform *)

\* a timestamp no message of the channel has yet
NextTimestamp ==
    1 + Cardinality({ r \in chatLog : r.op = "create" /\ r.ts # NoTimestamp })

Request(op, t, ts) == [op |-> op, id |-> tasks[t].id, ts |-> ts]

-----------------------------------------------------------------------------
(* The delayed functions, run by the task queue *)

\* FillMissingFields, at the start of SendMessage and of EditMessage: the
\* Story of the invocation gets the fields the upstream API serves
FillMissingFields(t) ==
    /\ tasks[t].kind \in {"send", "edit"}
    /\ tasks[t].pc = "queued"
    /\ \/ \* the GET or the decoding fails: the delayed function logs and returns
          tasks' = Remove(t)
       \/ \E item \in FetchItems :
             tasks' = [tasks EXCEPT ![t].pc = "loaded", ![t].item = item]
    /\ UNCHANGED <<store, now, started, cycles, chatLog, call>>

\* ToSendMessageAttachments when client.Get(s.URL) fails: resp is nil and
\* "defer resp.Body.Close()" panics; the request ends with a server error and
\* the task queue delivers the task again
Panic(t) ==
    tasks' = [tasks EXCEPT ![t].pc = "queued", ![t].item = ZeroItem]

\* SendMessage after FillMissingFields: ShouldIgnore, InDatastore,
\* ToSendMessageAttachments, PostForm to chat.postMessage and the decoding of
\* the response
SendMessage(t) ==
    /\ tasks[t].kind = "send"
    /\ tasks[t].pc = "loaded"
    /\ IF ShouldIgnore(tasks[t].item)
       THEN \* ErrIgnoredItem
            tasks' = Remove(t) /\ chatLog' = chatLog
       ELSE IF InDatastore(tasks[t].id)
       THEN \* "story already posted"
            tasks' = Remove(t) /\ chatLog' = chatLog
       ELSE \/ Panic(t) /\ chatLog' = chatLog
            \/ \* transport failure, the request never arrived
               /\ tasks' = Remove(t)
               /\ chatLog' = chatLog
            \/ \* the message is created, but the response is lost or is not
               \* JSON
               /\ tasks' = Remove(t)
               /\ chatLog' = chatLog \cup {Request("create", t, NextTimestamp)}
            \/ \* ok = true: s.Timestamp = response.Timestamp
               /\ tasks' = [tasks EXCEPT ![t].pc = "saving",
                                         ![t].timestamp = NextTimestamp]
               /\ chatLog' = chatLog \cup {Request("create", t, NextTimestamp)}
            \/ \* ok = false: the response has no "ts", and
               \* response.Timestamp is ""
               /\ tasks' = [tasks EXCEPT ![t].pc = "saving",
                                         ![t].timestamp = NoTimestamp]
               /\ chatLog' = chatLog \cup {Request("create", t, NoTimestamp)}
    /\ UNCHANGED <<store, now, started, cycles, call>>

\* the form posted to chat.update without the timestamp of the message
UpdateForm_NoTs(t) == Request("update", t, NoTimestamp)

\* the form EditMessage posts to chat.update: "ts" is s.Timestamp
UpdateForm(t) == Request("update", t, tasks[t].timestamp)

\* EditMessage after FillMissingFields: ShouldIgnore,
\* ToSendMessageAttachments and PostForm to chat.update; the response is
\* logged, not read
EditMessage(t) ==
    /\ tasks[t].kind = "edit"
    /\ tasks[t].pc = "loaded"
    /\ IF ShouldIgnore(tasks[t].item)
       THEN tasks' = Remove(t) /\ chatLog' = chatLog
       ELSE \/ Panic(t) /\ chatLog' = chatLog
            \/ \* transport failure, before or after the request arrived
               /\ tasks' = Remove(t)
               /\ chatLog' \in {chatLog, chatLog \cup {UpdateForm(t)}}
            \/ /\ tasks' = [tasks EXCEPT ![t].pc = "saving"]
               /\ chatLog' = chatLog \cup {UpdateForm(t)}
    /\ UNCHANGED <<store, now, started, cycles, call>>

\* the story of a delayed function once its fields are filled: what
\* datastore.Put is given
StoryOf(t) ==
    [ID |-> tasks[t].id, Timestamp |-> tasks[t].timestamp,
     Type |-> tasks[t].item.Type, Score |-> tasks[t].item.Score,
     Descendants |-> tasks[t].item.Descendants, URL |-> tasks[t].item.URL]

\* the end of the delayed functions with a failed Put made good by taking
\* the message of the id back
Put_Rollback(t) ==
    /\ tasks[t].pc = "saving"
    /\ \/ \E h \in Times :
             /\ TimeNow(h)
             /\ store' = DatastorePut(tasks[t].id,
                              Save(tasks[t].id, tasks[t].timestamp, h))
             /\ tasks' = Remove(t)
             /\ chatLog' = chatLog
       \/ /\ UNCHANGED <<store, now>>
          /\ tasks' = Remove(t)
          /\ chatLog' = { r \in chatLog : r.id # tasks[t].id }
    /\ UNCHANGED <<started, cycles, call>>

\* the end of sendMessageFunc and of editMessageFunc:
\* datastore.Put(ctx, GetKey(ctx, itemID), &story)
Put(t) ==
    /\ tasks[t].pc = "saving"
    /\ \/ \E h \in Times :
             /\ TimeNow(h)
             /\ store' = DatastorePut(tasks[t].id,
                              Save(tasks[t].id, tasks[t].timestamp, h))
             /\ tasks' = Remove(t)
       \/ \* the Put fails: logged
          /\ UNCHANGED <<store, now>>
          /\ tasks' = Remove(t)
    /\ UNCHANGED <<started, cycles, chatLog, call>>

\* deleteMessageFunc: Story.DeleteMessage is datastore.Delete of the key
deleteMessageFunc(t) ==
    /\ tasks[t].kind = "delete"
    /\ tasks[t].pc = "queued"
    /\ \/ /\ store' = DatastoreDelete(tasks[t].id)
          /\ tasks' = Remove(t)
       \/ \* the Delete fails: logged
          /\ store' = store
          /\ tasks' = Remove(t)
    /\ UNCHANGED <<now, started, cycles, chatLog, call>>

-----------------------------------------------------------------------------
(* The specification of the bot *)

NoCall == [fn |-> "", arg |-> << >>, ret |-> FALSE]

Init ==
    /\ store = << >>
    /\ now = 0
    /\ started = 0
    /\ cycles = << >>
    /\ tasks = << >>
    /\ chatLog = {}
    /\ call = NoCall

TaskStep(t) ==
    \/ Call(t)
    \/ FillMissingFields(t)
    \/ SendMessage(t)
    \/ EditMessage(t)
    \/ Put(t)
    \/ deleteMessageFunc(t)

Next ==
    \/ handler
    \/ editHandler
    \/ cleanUpHandler
    \/ \E c \in DOMAIN cycles : Return(c)
    \/ \E t \in DOMAIN tasks : TaskStep(t)

Spec == Init /\ [][Next]_vars

-----------------------------------------------------------------------------
(* Poll cycles that do not overlap: /poll and /edit are requested only once  *)
(* the send and edit tasks of the earlier cycles have finished               *)

NoPollPending ==
    /\ \A c \in DOMAIN cycles : cycles[c].kind = "cleanup"
    /\ \A t \in DOMAIN tasks : tasks[t].kind = "delete"

SeqNext ==
    \/ NoPollPending /\ handler
    \/ NoPollPending /\ editHandler
    \/ cleanUpHandler
    \/ \E c \in DOMAIN cycles : Return(c)
    \/ \E t \in DOMAIN tasks : TaskStep(t)

SeqSpec == Init /\ [][SeqNext]_vars

-----------------------------------------------------------------------------
(* The pure functions, called on every input of their bounded domains *)

CallShouldIgnore ==
    /\ \E s \in Items :
          call' = [fn |-> "ShouldIgnore", arg |-> s, ret |-> ShouldIgnore(s)]
    /\ UNCHANGED <<store, now, started, cycles, tasks, chatLog>>

CallShouldIgnoreError ==
    /\ \E r \in DeleteMessageResponses :
          call' = [fn |-> "ShouldIgnoreError", arg |-> r,
                   ret |-> ShouldIgnoreError(r)]
    /\ UNCHANGED <<store, now, started, cycles, tasks, chatLog>>

\* a call of the formatter; what the page of the URL serves at that moment
\* is no part of the argument
CallToSendMessageAttachments ==
    /\ \E id \in Ids, s \in Items, page \in Pages :
          call' = [fn |-> "ToSendMessageAttachments", arg |-> << id, s >>,
                   ret |-> ToSendMessageAttachments(id, s, page)]
    /\ UNCHANGED <<store, now, started, cycles, tasks, chatLog>>

CallGetReplyMarkup ==
    /\ \E id \in Ids, s \in Items :
          call' = [fn |-> "GetReplyMarkup", arg |-> << id, s >>,
                   ret |-> GetReplyMarkup(id, s)]
    /\ UNCHANGED <<store, now, started, cycles, tasks, chatLog>>

PureNext ==
    \/ CallShouldIgnore
    \/ CallShouldIgnoreError
    \/ CallToSendMessageAttachments
    \/ CallGetReplyMarkup

PureSpec == Init /\ [][PureNext]_vars

-----------------------------------------------------------------------------
(* Vocabulary of the properties *)

\* an item that is not eligible for notification, in the words of the
\* specification
Ineligible(s) ==
    \/ s.Type # "story"
    \/ s.Score < 50
    \/ s.Descendants < 5
    \/ s.URL = ""

\* this step is a step of task t
Steps(t) == t \notin DOMAIN tasks' \/ tasks'[t] # tasks[t]

\* this step ends task t: its delayed function returns
Ends(t) == t \notin DOMAIN tasks'

\* the tasks this step spawns for an id
NewTasks(kind, id) ==
    { t \in DOMAIN tasks' \ DOMAIN tasks :
        tasks'[t].kind = kind /\ tasks'[t].id = id }

\* this step is the start of an invocation of the given kind whose datastore
\* lookup was answered
Starts(kind) ==
    /\ started' = started + 1
    /\ started' \in DOMAIN cycles'
    /\ cycles'[started'].kind = kind
    /\ cycles'[started'].lookup = "done"

\* invocation c has returned
Returned(c) == c \in 1..started /\ c \notin DOMAIN cycles

CreateRequest(id, ts) == [op |-> "create", id |-> id, ts |-> ts]
UpdateRequest(id, ts) == [op |-> "update", id |-> id, ts |-> ts]

-----------------------------------------------------------------------------
(* C1 *)

\* C1: a send or edit task whose fetched item is ineligible ends there: it
\* sends no chat create and no chat update request and writes nothing to the
\* store; no task with an ineligible item ever gets as far as the store write.
C1_IneligibleNoEffect ==
    /\ [](\A t \in DOMAIN tasks :
            tasks[t].pc = "saving" => ~Ineligible(tasks[t].item))
    /\ [][\A t \in DOMAIN tasks :
            (/\ tasks[t].pc = "loaded"
             /\ Ineligible(tasks[t].item)
             /\ Steps(t))
            => (Ends(t) /\ store' = store /\ chatLog' = chatLog)]_vars

\* an edit task of a stored id and a send task have each fetched an item
\* that is ineligible
C1_Witness ==
    /\ \E t \in DOMAIN tasks :
          /\ tasks[t].kind = "edit"
          /\ tasks[t].pc = "loaded"
          /\ tasks[t].id \in DOMAIN store
          /\ tasks[t].item.URL = ""
    /\ \E t \in DOMAIN tasks :
          /\ tasks[t].kind = "send"
          /\ tasks[t].pc = "loaded"
          /\ tasks[t].item.Score = 49

-----------------------------------------------------------------------------
(* C2 *)

\* C2: a poll cycle whose lookup is answered spawns, for a candidate found in
\* the store, exactly one edit carrying the stored timestamp and no send, and
\* for a candidate that is not found exactly one send and no edit; the
\* timestamp a send task gets is the one of the message the chat platform
\* has just created for the id, and the record the task then writes has that
\* timestamp.
C2_Reconcile ==
    [][/\ Starts("poll") =>
            LET c == cycles'[started'] IN
            \A i \in 1..Len(c.ids) :
               LET id == c.ids[i] IN
               /\ (id \in DOMAIN store /\ c.errs[i] # "error") =>
                     /\ Cardinality(NewTasks("edit", id)) = 1
                     /\ \A t \in NewTasks("edit", id) :
                           tasks'[t].timestamp = store[id].Timestamp
                     /\ NewTasks("send", id) = {}
               /\ (id \notin DOMAIN store /\ c.errs[i] # "error") =>
                     /\ Cardinality(NewTasks("send", id)) = 1
                     /\ NewTasks("edit", id) = {}
       /\ \A t \in DOMAIN tasks :
             (/\ tasks[t].kind = "send"
              /\ tasks[t].pc = "loaded"
              /\ ~Ends(t)
              /\ tasks'[t].pc = "saving"
              /\ tasks'[t].timestamp # NoTimestamp)
             => /\ CreateRequest(tasks[t].id, tasks'[t].timestamp)
                      \in chatLog' \ chatLog
                /\ \A r \in chatLog : r.ts # tasks'[t].timestamp
       /\ \A t \in DOMAIN tasks :
             (/\ tasks[t].kind = "send"
              /\ tasks[t].pc = "saving"
              /\ Ends(t)
              /\ store' # store)
             => /\ tasks[t].id \in DOMAIN store'
                /\ store'[tasks[t].id].ID = tasks[t].id
                /\ store'[tasks[t].id].Timestamp = tasks[t].timestamp
      ]_vars

\* a poll cycle with candidates 1 (stored) and 2 (not found) has spawned the
\* edit of 1 with the stored timestamp, and its send of 2 has gone through:
\* the store holds 2 with the timestamp of a message created for 2
C2_Witness ==
    \E c \in DOMAIN cycles :
       /\ cycles[c].kind = "poll"
       /\ cycles[c].ids = << 1, 2 >>
       /\ cycles[c].errs = << "nil", NoSuchEntity >>
       /\ DOMAIN tasks = { << c, 1 >> }
       /\ tasks[<< c, 1 >>].kind = "edit"
       /\ DOMAIN store = {1, 2}
       /\ tasks[<< c, 1 >>].timestamp = store[1].Timestamp
       /\ store[2].Timestamp # NoTimestamp
       /\ CreateRequest(2, store[2].Timestamp) \in chatLog

-----------------------------------------------------------------------------
(* C3 *)

\* C3: when poll cycles do not overlap, a chat message is created for an id
\* only while the store has no record of it; a cycle that finds a candidate
\* in the store spawns an edit for it and no send; and no send task is ever
\* pending for an id that has a record, so that the "story already posted"
\* exit of SendMessage is never needed.
C3_NoResend ==
    /\ [](\A t \in DOMAIN tasks :
            tasks[t].kind = "send" /\ tasks[t].pc # "saving"
            => tasks[t].id \notin DOMAIN store)
    /\ [][/\ \A r \in chatLog' \ chatLog :
                r.op = "create" => r.id \notin DOMAIN store
          /\ \A kind \in {"poll", "edit"} :
                Starts(kind) =>
                   LET c == cycles'[started'] IN
                   \A i \in 1..Len(c.ids) :
                      c.ids[i] \in DOMAIN store =>
                         /\ NewTasks("send", c.ids[i]) = {}
                         /\ c.errs[i] # "error" =>
                               Cardinality(NewTasks("edit", c.ids[i])) = 1
         ]_vars

\* id 1 was sent once and saved; a later poll cycle that contains it has
\* spawned an edit with the saved timestamp
C3_Witness ==
    /\ 2 \in DOMAIN cycles
    /\ cycles[2].kind = "poll"
    /\ 1 \in DOMAIN store
    /\ store[1].Timestamp # NoTimestamp
    /\ { r \in chatLog : r.op = "create" /\ r.id = 1 }
          = { CreateRequest(1, store[1].Timestamp) }
    /\ \E t \in DOMAIN tasks :
          /\ t[1] = 2
          /\ tasks[t] = [NewTask("edit", 1, store[1].Timestamp)
                            EXCEPT !.pc = "queued"]

-----------------------------------------------------------------------------
(* C4 *)

\* C4: the delete task of a stale record asks the chat platform to delete the
\* message of the record, and removes the record only after that request.
C4_DeleteAsksChat ==
    [][\A t \in DOMAIN tasks :
          (tasks[t].kind = "delete" /\ tasks[t].pc = "queued" /\ Steps(t))
          => \E r \in chatLog' : r.op = "delete" /\ r.id = tasks[t].id]_vars

-----------------------------------------------------------------------------
(* C5 *)

\* C5: no step ends or changes more than one task, so the failure of a task
\* leaves the others of its cycle as they were, and every task that has not
\* finished can take its next step whatever has become of the others.
C5_Independent ==
    /\ [](\A t \in DOMAIN tasks : ENABLED TaskStep(t))
    /\ [][Cardinality({ t \in DOMAIN tasks : Steps(t) }) <= 1]_vars

\* of the two sends of a poll cycle, the one for 1 has ended without a message
\* and without a record, and the one for 2 has written its record
C5_Witness ==
    /\ started = 1
    /\ 1 \in DOMAIN cycles
    /\ cycles[1].kind = "poll"
    /\ cycles[1].errs = << NoSuchEntity, NoSuchEntity >>
    /\ tasks = << >>
    /\ DOMAIN store = {2}
    /\ { r.id : r \in chatLog } = {2}
    /\ CreateRequest(2, store[2].Timestamp) \in chatLog

-----------------------------------------------------------------------------
(* C6 *)

\* C6: ShouldIgnore is true exactly for the items with a kind other than
\* "story", a score below 50, fewer than 5 comments or an empty URL.
C6_Eligibility ==
    call.fn = "ShouldIgnore" => (call.ret <=> Ineligible(call.arg))

\* the item on both thresholds is not ignored
C6_Witness ==
    /\ call.fn = "ShouldIgnore"
    /\ call.arg = [Type |-> "story", Score |-> 50, Descendants |-> 5,
                   URL |-> "http://a"]
    /\ call.ret = FALSE

-----------------------------------------------------------------------------
(* C7 *)

\* the description has the phrase somewhere
HasPhrase(d, p) ==
    \E i \in 0..Len(d) :
       /\ i + Len(p) <= Len(d)
       /\ SubSeq(d, i + 1, i + Len(p)) = p

\* C7: a delete response is ignorable exactly when its error code is 400 and
\* its description contains "message to delete not found" or "message can't
\* be deleted".
C7_IgnorableDelete ==
    call.fn = "ShouldIgnoreError" =>
       (call.ret <=>
          /\ call.arg.ErrorCode = 400
          /\ \/ HasPhrase(call.arg.Description,
                          << "message", "to", "delete", "not", "found" >>)
             \/ HasPhrase(call.arg.Description,
                          << "message", "can't", "be", "deleted" >>))

\* a 400 whose description has the second phrase in the middle is ignorable
C7_Witness ==
    /\ call.fn = "ShouldIgnoreError"
    /\ call.arg.ErrorCode = 400
    /\ call.arg.Description =
          << "Bad", "Request:", "message", "can't", "be", "deleted", "anymore" >>
    /\ call.ret = TRUE

-----------------------------------------------------------------------------
(* C8 *)

\* C8: a cleanup sweep whose query is answered at time h spawns exactly one
\* delete task for every record last saved at or before h - 24 hours, none
\* for any other id, and leaves the store as it is.
C8_CleanupSelects ==
    [][Starts("cleanup") =>
          /\ store' = store
          /\ \A t \in DOMAIN tasks' \ DOMAIN tasks : tasks'[t].kind = "delete"
          /\ \A id \in Ids :
                Cardinality(NewTasks("delete", id)) =
                   IF id \in DOMAIN store /\ now' - store[id].LastSave >= 24
                   THEN 1 ELSE 0]_vars

\* a sweep at hour 25 has selected the record saved 25 hours before and not
\* the one saved 23 hours before
C8_Witness ==
    \E c \in DOMAIN cycles :
       /\ cycles[c].kind = "cleanup"
       /\ cycles[c].ids = << 1 >>
       /\ now = 25
       /\ DOMAIN store = {1, 2}
       /\ store[1].LastSave = 0
       /\ store[2].LastSave = 2
       /\ DOMAIN tasks = { << c, 1 >> }
       /\ tasks[<< c, 1 >>].kind = "delete"
       /\ tasks[<< c, 1 >>].id = 1

-----------------------------------------------------------------------------
(* C9 *)

\* C9: an edit task carries the timestamp read from the store when it was
\* spawned, its chat update is keyed by that timestamp, and the record it
\* writes has the id and that timestamp, with the time of the write as its
\* last-saved time; no other record changes.
C9_EditKeepsTimestamp ==
    [][/\ \A t \in DOMAIN tasks' \ DOMAIN tasks :
             tasks'[t].kind = "edit" =>
                /\ tasks'[t].id \in DOMAIN store
                /\ tasks'[t].timestamp = store[tasks'[t].id].Timestamp
       /\ \A t \in DOMAIN tasks :
             (tasks[t].kind = "edit" /\ ~Ends(t)) =>
                /\ tasks'[t].timestamp = tasks[t].timestamp
                /\ (tasks[t].pc = "loaded" /\ tasks'[t].pc = "saving") =>
                      chatLog' = chatLog \cup
                         {UpdateRequest(tasks[t].id, tasks[t].timestamp)}
       /\ \A t \in DOMAIN tasks :
             (tasks[t].kind = "edit" /\ tasks[t].pc = "saving" /\ Steps(t)) =>
                /\ Ends(t)
                /\ \/ store' = store
                   \/ /\ DOMAIN store' = DOMAIN store \cup {tasks[t].id}
                      /\ \A id \in DOMAIN store' :
                            store'[id] =
                               IF id = tasks[t].id
                               THEN [ID |-> id,
                                     Timestamp |-> tasks[t].timestamp,
                                     LastSave |-> now']
                               ELSE store[id]
      ]_vars

\* an edit cycle found the record of 1; its task has sent the update keyed by
\* the timestamp of the message of 1 and has written the record back at hour
\* 24, with that timestamp
C9_Witness ==
    /\ 2 \in DOMAIN cycles
    /\ cycles[2].kind = "edit"
    /\ cycles[2].ids = << 1, 2 >>
    /\ cycles[2].errs = << "nil", NoSuchEntity >>
    /\ tasks = << >>
    /\ now = 24
    /\ 1 \in DOMAIN store
    /\ store[1].LastSave = 24
    /\ store[1].Timestamp # NoTimestamp
    /\ CreateRequest(1, store[1].Timestamp) \in chatLog
    /\ UpdateRequest(1, store[1].Timestamp) \in chatLog

-----------------------------------------------------------------------------
(* C10 *)

\* C10: when a poll or cleanup invocation has returned, none of the tasks it
\* spawned is still pending or running.
C10_ReturnWaitsForTasks ==
    \A c \in 1..started :
       Returned(c) => \A t \in DOMAIN tasks : t[1] # c

\* C10, amended: when an invocation has returned, every goroutine it spawned
\* has finished its Call, that is, has handed its task to the task queue; the
\* task itself may still be queued or running.
C10_ReturnWaitsForCalls ==
    \A c \in 1..started :
       Returned(c) =>
          \A t \in DOMAIN tasks : t[1] = c => tasks[t].pc # "spawned"

\* an invocation has returned while one of its tasks waits in the queue and
\* another is about to write its record
C10_Witness ==
    \E c \in 1..started :
       /\ Returned(c)
       /\ \E t \in DOMAIN tasks : t[1] = c /\ tasks[t].pc = "queued"
       /\ \E t \in DOMAIN tasks : t[1] = c /\ tasks[t].pc = "saving"

-----------------------------------------------------------------------------
(* C11 *)

\* a Story without its last-saved time
WithoutLastSave(s) == [f \in DOMAIN s \ {"LastSave"} |-> s[f]]

\* C11: after a task has put its story, a get of the id returns a story equal
\* to the one that was put in every field but the last-saved time; and a get
\* of an id that has no record returns NotFound.
C11_RoundTripWhole ==
    /\ [](\A id \in Ids :
            id \notin DOMAIN store => NewFromDatastore(id).err = NoSuchEntity)
    /\ [][\A t \in DOMAIN tasks :
            (tasks[t].pc = "saving" /\ Ends(t) /\ store' # store)
            => /\ Get(store', tasks[t].id).err = "nil"
               /\ WithoutLastSave(Get(store', tasks[t].id).story) = StoryOf(t)
       ]_vars

\* C11, amended: after a task has put its story, a get of the id returns a
\* story with the id and the message timestamp of the one that was put, the
\* time of the write as last-saved time, and the zero value in every other
\* field; a get of an id that has no record, also right after its record was
\* deleted, returns NotFound.
C11_RoundTripStored ==
    /\ [](\A id \in Ids :
            id \notin DOMAIN store => NewFromDatastore(id).err = NoSuchEntity)
    /\ [][/\ \A t \in DOMAIN tasks :
               (tasks[t].pc = "saving" /\ Ends(t) /\ store' # store)
               => /\ Get(store', tasks[t].id).err = "nil"
                  /\ Get(store', tasks[t].id).story =
                        [ZeroStory EXCEPT !.ID = tasks[t].id,
                                          !.Timestamp = tasks[t].timestamp,
                                          !.LastSave = now']
          /\ \A t \in DOMAIN tasks :
               (tasks[t].kind = "delete" /\ Ends(t) /\ store' # store)
               => Get(store', tasks[t].id).err = NoSuchEntity
       ]_vars

\* the record of 2 reads back with the timestamp of its message, and the
\* record of 1, selected by a cleanup sweep, has been deleted: a get of 1
\* returns NotFound
C11_Witness ==
    /\ \E c \in DOMAIN cycles :
          cycles[c].kind = "cleanup" /\ cycles[c].ids = << 1 >>
    /\ tasks = << >>
    /\ CreateRequest(1, 1) \in chatLog
    /\ NewFromDatastore(1).err = NoSuchEntity
    /\ NewFromDatastore(2).err = "nil"
    /\ NewFromDatastore(2).story.ID = 2
    /\ NewFromDatastore(2).story.Timestamp # NoTimestamp
    /\ CreateRequest(2, NewFromDatastore(2).story.Timestamp) \in chatLog

-----------------------------------------------------------------------------
(* C12 *)

\* the text has the hot marker
HasHot(v) == \E i \in 1..Len(v) : v[i] = "(fire)"

\* the fields of the payload with the given title
FieldsTitled(fields, title) ==
    { i \in 1..Len(fields) : fields[i].Title = title }

\* C12: every payload the formatter returns has exactly one Score field and
\* one Comments field; the Score field has the hot marker exactly when the
\* score is above 100 and the Comments field exactly when the discussion
\* count is above 100, each whatever the other is. The same holds of the two
\* buttons of the reply markup.
C12_HotMarker ==
    /\ (call.fn = "ToSendMessageAttachments" /\ ~call.ret.panic) =>
          /\ Len(call.ret.attachments) = 1
          /\ LET fields == call.ret.attachments[1].Fields
                 item == call.arg[2]
             IN  /\ Cardinality(FieldsTitled(fields, "Score")) = 1
                 /\ Cardinality(FieldsTitled(fields, "Comments")) = 1
                 /\ \A i \in FieldsTitled(fields, "Score") :
                       HasHot(fields[i].Value) <=> item.Score > 100
                 /\ \A i \in FieldsTitled(fields, "Comments") :
                       HasHot(fields[i].Value) <=> item.Descendants > 100
    /\ call.fn = "GetReplyMarkup" =>
          LET row == call.ret[1]
              item == call.arg[2]
          IN  /\ Len(call.ret) = 1 /\ Len(row) = 2
              /\ row[1].Text[1] = "Score: "
              /\ row[2].Text[1] = "Comments: "
              /\ HasHot(row[1].Text) <=> item.Score > 100
              /\ HasHot(row[2].Text) <=> item.Descendants > 100

\* a payload for score 150 and 100 comments: the marker is on the Score
\* field and not on the Comments field
C12_Witness ==
    /\ call.fn = "ToSendMessageAttachments"
    /\ ~call.ret.panic
    /\ call.arg[2].Score = 150
    /\ call.arg[2].Descendants = 100
    /\ call.ret.attachments[1].Fields[1].Value = << "150", "+", " ", "(fire)" >>
    /\ ~HasHot(call.ret.attachments[1].Fields[2].Value)

-----------------------------------------------------------------------------
(* C13 *)

\* C13: two calls of the formatter, one after the other, on the same story
\* return the same payload.
C13_Deterministic ==
    [][(/\ call.fn = "ToSendMessageAttachments"
        /\ call'.fn = "ToSendMessageAttachments"
        /\ call'.arg = call.arg)
       => call'.ret = call.ret]_vars

-----------------------------------------------------------------------------
(* C14 *)

\* task t sends its create request in this step
Posts(t) == SendMessage(t) /\ chatLog' # chatLog

\* C14: nothing but the store keeps a send from posting: a send task that has
\* fetched an eligible item for an id without a record can send its create
\* request, whatever the other tasks for the same id have done so far.
C14_NoInFlightGuard ==
    \A t \in DOMAIN tasks :
       (/\ tasks[t].kind = "send"
        /\ tasks[t].pc = "loaded"
        /\ ~Ineligible(tasks[t].item)
        /\ tasks[t].id \notin DOMAIN store)
       => ENABLED Posts(t)

\* the send tasks of two cycles for the same id have both passed the check
\* of the store and both created a message, and neither has written its
\* record yet: two messages exist for the id
C14_Witness ==
    \E t1, t2 \in DOMAIN tasks :
       /\ t1[1] # t2[1]
       /\ tasks[t1].id = tasks[t2].id
       /\ tasks[t1].id \notin DOMAIN store
       /\ tasks[t1].kind = "send" /\ tasks[t2].kind = "send"
       /\ tasks[t1].pc = "saving" /\ tasks[t2].pc = "saving"
       /\ tasks[t1].timestamp # NoTimestamp
       /\ tasks[t2].timestamp # NoTimestamp
       /\ tasks[t1].timestamp # tasks[t2].timestamp
       /\ CreateRequest(tasks[t1].id, tasks[t1].timestamp) \in chatLog
       /\ CreateRequest(tasks[t2].id, tasks[t2].timestamp) \in chatLog

-----------------------------------------------------------------------------
(* C15 *)

\* this step takes task t one stage further
Advances(t) ==
    /\ ~Ends(t)
    /\ << tasks[t].pc, tasks'[t].pc >> \in
          { << "spawned", "queued" >>, << "queued", "loaded" >>,
            << "loaded", "saving" >> }

\* C15: a step of a send or edit task that does not take it further (an
\* external call has failed, or the item is ignored) ends the task: the task
\* is never put back to be run again; and a task that ends before its store
\* write leaves the store as it was.
C15_FailureStops ==
    [][\A t \in DOMAIN tasks :
          (tasks[t].kind \in {"send", "edit"} /\ Steps(t) /\ ~Advances(t))
          => /\ Ends(t)
             /\ tasks[t].pc # "saving" => store' = store]_vars

-----------------------------------------------------------------------------
(* C16 *)

\* C16: in a poll cycle whose lookup is answered key by key, a key whose
\* lookup failed with an error other than NotFound gets neither a send nor an
\* edit, and every other key gets its task all the same: one send and no edit
\* when the lookup said NotFound, one edit and no send when it found the
\* record.
C16_LookupFailureIsLocal ==
    [][Starts("poll") =>
          LET c == cycles'[started'] IN
          \A i \in 1..Len(c.ids) :
             LET sends == Cardinality(NewTasks("send", c.ids[i]))
                 edits == Cardinality(NewTasks("edit", c.ids[i]))
             IN  /\ c.errs[i] = "error" => sends = 0 /\ edits = 0
                 /\ c.errs[i] = NoSuchEntity => sends = 1 /\ edits = 0
                 /\ c.errs[i] = "nil" => sends = 0 /\ edits = 1]_vars

\* the lookup of a poll cycle failed for 1 and said NotFound for 2: the cycle
\* has spawned the send of 2 and nothing for 1
C16_Witness ==
    \E c \in DOMAIN cycles :
       /\ cycles[c].kind = "poll"
       /\ cycles[c].ids = << 1, 2 >>
       /\ cycles[c].errs = << "error", NoSuchEntity >>
       /\ { t \in DOMAIN tasks : t[1] = c } = { << c, 2 >> }
       /\ tasks[<< c, 2 >>].kind = "send"
       /\ tasks[<< c, 2 >>].id = 2
       /\ tasks[<< c, 2 >>].pc = "spawned"

-----------------------------------------------------------------------------
(* C17 *)

\* a message was created for the id and the store has no record of it
Orphan(id) ==
    /\ id \notin DOMAIN store
    /\ \E r \in chatLog : r.op = "create" /\ r.id = id /\ r.ts # NoTimestamp

\* C17: when the store write of a send task fails, the task ends, the message
\* it created stays and the id still has no record; afterwards a record of an
\* id only ever appears through the store write of a task for that id, and no
\* request the chat platform received is taken back; and a poll cycle that
\* looks up an id with a message and no record is told NotFound and spawns a
\* send for it.
C17_UnrepairedWrite ==
    [][/\ \A t \in DOMAIN tasks :
             (/\ tasks[t].kind = "send"
              /\ tasks[t].pc = "saving"
              /\ Steps(t)
              /\ store' = store)
             => /\ Ends(t)
                /\ chatLog' = chatLog
                /\ tasks[t].timestamp # NoTimestamp =>
                      CreateRequest(tasks[t].id, tasks[t].timestamp) \in chatLog'
       /\ chatLog \subseteq chatLog'
       /\ \A id \in DOMAIN store' \ DOMAIN store :
             \E t \in DOMAIN tasks :
                tasks[t].id = id /\ tasks[t].pc = "saving" /\ Ends(t)
       /\ Starts("poll") =>
             LET c == cycles'[started'] IN
             \A i \in 1..Len(c.ids) :
                (Orphan(c.ids[i]) /\ c.errs[i] # "error")
                => /\ c.errs[i] = NoSuchEntity
                   /\ Cardinality(NewTasks("send", c.ids[i])) = 1
      ]_vars

\* the first cycle is over and has left a message for 1 and no record of it;
\* the second cycle has spawned another send for 1, which has created a
\* second message
C17_Witness ==
    /\ started = 2
    /\ 2 \in DOMAIN cycles
    /\ cycles[2].kind = "poll"
    /\ 1 \notin DOMAIN store
    /\ DOMAIN tasks = { << 2, 1 >> }
    /\ tasks[<< 2, 1 >>].kind = "send"
    /\ tasks[<< 2, 1 >>].id = 1
    /\ tasks[<< 2, 1 >>].pc = "saving"
    /\ tasks[<< 2, 1 >>].timestamp = 2
    /\ { r \in chatLog : r.id = 1 } = { CreateRequest(1, 1), CreateRequest(1, 2) }

-----------------------------------------------------------------------------
(* C18 *)

\* C18: every record of the store has a message timestamp, and it is the
\* timestamp of a message the chat platform created for the id of the record.
C18_StoredHaveTimestamp ==
    \A id \in DOMAIN store :
       /\ store[id].Timestamp # NoTimestamp
       /\ CreateRequest(id, store[id].Timestamp) \in chatLog

-----------------------------------------------------------------------------
(* C19 *)

\* C19: a poll cycle that got its candidates, however few, and whose lookup
\* the datastore did not fail, spawns exactly one task for every candidate:
\* an edit if the store has a record of the id and a send if it has none.
C19_DispatchAll ==
    [][(/\ started' = started + 1
        /\ started' \in DOMAIN cycles'
        /\ cycles'[started'].kind = "poll"
        /\ cycles'[started'].lookup \in {"done", "mismatch"})
       => LET c == cycles'[started'] IN
          \A i \in 1..Len(c.ids) :
             (c.lookup = "mismatch" \/ c.errs[i] # "error")
             => LET sends == Cardinality(NewTasks("send", c.ids[i]))
                    edits == Cardinality(NewTasks("edit", c.ids[i]))
                IN  IF c.ids[i] \in DOMAIN store
                    THEN edits = 1 /\ sends = 0
                    ELSE sends = 1 /\ edits = 0]_vars

====
